---- MODULE Spec2Model ----
(***************************************************************************)
(* Query result cache and query-enhancement engine of the Wikidata         *)
(* explorer: key derivation (explorer/dal/cache_manager.py), the TTL cache *)
(* store (explorer/cache_manager.py, explorer/dal/cache_manager.py), the   *)
(* label enhancer and the query executor (explorer/data_service.py).       *)
(*                                                                         *)
(* A query text is a sequence of tokens [t, v]: t is the token's class     *)
(* ("ws" whitespace, "kw" keyword, "var" ?name, "wdt" wdt:Pnn, "wd"        *)
(* wd:Qnn, "rdfs" rdfs:label, "sym" punctuation, "lit" literal, "label"    *)
(* one generated OPTIONAL label block) and v its characters.  Whitespace   *)
(* tokens are single whitespace characters; no other token holds one.      *)
(***************************************************************************)
EXTENDS Integers, Sequences, FiniteSets, TLC

----------------------------------------------------------------------------
(* Bounds of the model *)

\* the clock runs from 0 to MaxTime
MaxTime == 1
\* the configured ttl_seconds, scaled to the model's clock
TTL == 1

\* the longest query text given to a pure function, in tokens
MaxLen == 3

----------------------------------------------------------------------------
(* Query texts *)

Tok(t, v) == [t |-> t, v |-> v]
SP == Tok("ws", " ")
NL == Tok("ws", "\n")

IsSpace(tok) == tok.t = "ws"

\* str.lower() on the characters of one token
LowerStr(s) ==
    CASE s = "SELECT" -> "select"
      [] s = "WHERE" -> "where"
      [] s = "ASK" -> "ask"
      [] s = "LIMIT" -> "limit"
      [] s = "OPTIONAL" -> "optional"
      [] s = "P31" -> "p31"
      [] s = "Q5" -> "q5"
      [] s = "Berlin" -> "berlin"
      [] s = "BERLIN" -> "berlin"
      [] s = "X" -> "x"
      [] s = "xLabel" -> "xlabel"
      [] s = "Item" -> "item"
      [] OTHER -> s

LowerTok(tok) == Tok(tok.t, LowerStr(tok.v))

\* str.lower()
Lower(s) == [i \in 1..Len(s) |-> LowerTok(s[i])]

RECURSIVE lstrip(_)
\* str.lstrip()
lstrip(s) == IF s # <<>> /\ IsSpace(Head(s)) THEN lstrip(Tail(s)) ELSE s

RECURSIVE rstrip(_)
\* str.rstrip()
rstrip(s) ==
    IF s # <<>> /\ IsSpace(s[Len(s)]) THEN rstrip(SubSeq(s, 1, Len(s) - 1)) ELSE s

\* str.strip()
strip(s) == lstrip(rstrip(s))

RECURSIVE CollapseSpace(_)
\* re.sub(r'\s+', ' ', s): every maximal run of whitespace becomes one space
CollapseSpace(s) ==
    IF s = <<>> THEN <<>>
    ELSE IF IsSpace(Head(s))
         THEN <<SP>> \o CollapseSpace(lstrip(s))
         ELSE <<Head(s)>> \o CollapseSpace(Tail(s))

\* a normalization that keeps the letter case
NormalizeQueryKeepingCase(sparql_query) == CollapseSpace(strip(sparql_query))

\* the normalized query text of generate_cache_key
NormalizeQuery(sparql_query) == Lower(CollapseSpace(strip(sparql_query)))

\* hashlib.sha256(...).hexdigest()[:16]: the digest of a text, taken to be
\* free of collisions on the texts of the model
Sha256Hex16(s) == s

\* generate_cache_key: "sparql_" followed by the digest prefix
generate_cache_key(sparql_query) ==
    [prefix |-> "sparql_", digest |-> Sha256Hex16(NormalizeQuery(sparql_query))]

----------------------------------------------------------------------------
(* Query Enhancer: WikidataDataService._enhance_query_with_labels *)

IsKw(tok, word) == tok.t = "kw" /\ LowerStr(tok.v) = word

\* the first index >= i of s that holds no whitespace (Len(s) + 1 if none)
RECURSIVE SkipSpace(_, _)
SkipSpace(s, i) ==
    IF i <= Len(s) /\ IsSpace(s[i]) THEN SkipSpace(s, i + 1) ELSE i

\* the start of the whitespace run that ends just before index j
RECURSIVE RunStart(_, _)
RunStart(s, j) ==
    IF j > 1 /\ IsSpace(s[j - 1]) THEN RunStart(s, j - 1) ELSE j

\* re.search(r'SELECT\s+(.*?)\s+WHERE', q, re.IGNORECASE | re.DOTALL) with the
\* SELECT at index i: <<>> when it does not match there, else <<group(1)>>.
\* The greedy \s+ takes the whole run after SELECT and the lazy group then ends
\* before the whitespace run of the first WHERE that follows whitespace;
\* failing that, \s+ gives one character back and the group is empty (SELECT,
\* two or more whitespace characters, WHERE).
SelectMatchAt(s, i) ==
    IF ~(IsKw(s[i], "select") /\ i < Len(s) /\ IsSpace(s[i + 1])) THEN <<>>
    ELSE LET a == SkipSpace(s, i + 1)
             later == {j \in (a + 1)..Len(s) :
                          IsKw(s[j], "where") /\ IsSpace(s[j - 1])}
         IN  IF later # {}
             THEN LET j == CHOOSE x \in later : \A y \in later : x <= y
                  IN  <<SubSeq(s, a, RunStart(s, j) - 1)>>
             ELSE IF a <= Len(s) /\ IsKw(s[a], "where") /\ a - i >= 3
                  THEN << <<>> >>
                  ELSE <<>>

\* select_match: <<>> when the pattern matches nowhere (None), else
\* <<select_match.group(1)>> of the leftmost match
SelectMatch(s) ==
    LET hits == {i \in 1..Len(s) : SelectMatchAt(s, i) # <<>>}
    IN  IF hits = {} THEN <<>>
        ELSE SelectMatchAt(s, CHOOSE x \in hits : \A y \in hits : x <= y)

RECURSIVE FindVariables(_)
\* re.findall(r'\?(\w+)', select_vars): the names, in order, repeats kept
FindVariables(s) ==
    IF s = <<>> THEN <<>>
    ELSE IF Head(s).t = "var"
         THEN <<Head(s).v>> \o FindVariables(Tail(s))
         ELSE FindVariables(Tail(s))

\* whether text s (lower-cased) starts with p, for the variable names of the model
StartsWith(s, p) ==
    \/ s = p
    \/ <<s, p>> \in {<<"xlabel", "x">>, <<"itemlabel", "item">>}

\* any(name in variable_name.lower() for name in entity_var_names)
HasEntityName(variable_name) ==
    LowerStr(variable_name) \in {"entity", "item", "itemlabel", "property",
                                 "subject", "object"}

\* re.search(rf'\?{variable_name}\s+<next>', query, re.IGNORECASE) where <next>
\* is the class of the token after the whitespace (wdt:, rdfs:label)
VarThen(variable_name, query, cls) ==
    \E i \in 1..Len(query) :
        /\ query[i].t = "var"
        /\ LowerStr(query[i].v) = LowerStr(variable_name)
        /\ i < Len(query) /\ IsSpace(query[i + 1])
        /\ LET n == SkipSpace(query, i + 1)
           IN  n <= Len(query) /\ query[n].t = cls

\* re.search(rf'wdt:\w+\s+\?{variable_name}', query, re.IGNORECASE) ending at
\* a variable at index n: the pattern has no boundary after the name, so a
\* variable whose name starts with variable_name matches too
WdtThenVarAt(variable_name, query, i) ==
    /\ query[i].t = "wdt"
    /\ i < Len(query) /\ IsSpace(query[i + 1])
    /\ LET n == SkipSpace(query, i + 1)
       IN  /\ n <= Len(query) /\ query[n].t = "var"
           /\ StartsWith(LowerStr(query[n].v), LowerStr(variable_name))

\* WikidataDataService._is_entity_variable
is_entity_variable(variable_name, query) ==
    \/ VarThen(variable_name, query, "wdt")
    \/ \E i \in 1..Len(query) : WdtThenVarAt(variable_name, query, i)
    \/ VarThen(variable_name, query, "rdfs")
    \/ \E i \in 1..Len(query) :
          /\ query[i].t = "wd"
          /\ i < Len(query) /\ IsSpace(query[i + 1])
          /\ LET n == SkipSpace(query, i + 1)
             IN  n <= Len(query) /\ WdtThenVarAt(variable_name, query, n)
    \/ HasEntityName(variable_name)

\* one entry of label_conditions: a line break, the indentation (one space
\* stands for the run of spaces) and the OPTIONAL { ... } block of var
LabelCondition(var) == <<NL, SP, Tok("label", var)>>

RECURSIVE JoinLines(_)
\* '\n'.join(label_conditions)
JoinLines(blocks) ==
    IF blocks = <<>> THEN <<>>
    ELSE IF Len(blocks) = 1 THEN Head(blocks)
         ELSE Head(blocks) \o <<NL>> \o JoinLines(Tail(blocks))

\* [var for var in variables if self._is_entity_variable(var, base_query)]
RECURSIVE EntityVariables(_, _)
EntityVariables(variables, base_query) ==
    IF variables = <<>> THEN <<>>
    ELSE IF is_entity_variable(Head(variables), base_query)
         THEN <<Head(variables)>> \o EntityVariables(Tail(variables), base_query)
         ELSE EntityVariables(Tail(variables), base_query)

\* a test that takes any last character for the closing brace
EndsWithAnything(s) == s # <<>>

\* str.endswith('}') (no text of the model ends with a label block)
EndsWithBrace(s) == s # <<>> /\ s[Len(s)] = Tok("sym", "}")

\* an enhancer that strips trailing white space before anything else
enhance_query_stripped(base_query) == rstrip(base_query)

\* WikidataDataService._enhance_query_with_labels
enhance_query_with_labels(base_query) ==
    LET select_match == SelectMatch(base_query)
    IN  IF select_match = <<>> THEN base_query
        ELSE LET variables == FindVariables(select_match[1])
             IN  IF variables = <<>> THEN base_query
                 ELSE LET entity_variables == EntityVariables(variables, base_query)
                          label_conditions ==
                              [i \in 1..Len(entity_variables) |->
                                  LabelCondition(entity_variables[i])]
                          enhanced_query == rstrip(base_query)
                      IN  IF entity_variables = <<>> THEN base_query
                          ELSE IF EndsWithBrace(enhanced_query)
                               THEN SubSeq(enhanced_query, 1, Len(enhanced_query) - 1)
                                      \o JoinLines(label_conditions)
                                      \o <<NL, Tok("sym", "}")>>
                               ELSE enhanced_query

----------------------------------------------------------------------------
(* Values *)

\* Python's None
Nil == [kind |-> "None"]

\* the JSON document the endpoint answers query q with
Result(q) == [kind |-> "result", q |-> q]

\* an empty JSON document, {}
EmptyResult == [kind |-> "empty"]

\* Python truthiness of a result or of None
Truthy(v) == v.kind = "result"

K(w) == Tok("kw", w)
V(n) == Tok("var", n)
LB == Tok("sym", "{")
RB == Tok("sym", "}")

\* a custom query whose projected variable is the object of a wdt: triple
QA == <<K("SELECT"), SP, V("x"), SP, K("WHERE"), LB, V("s"), SP,
        Tok("wdt", "P31"), SP, V("x"), SP, Tok("sym", "."), SP, V("s"), SP,
        Tok("rdfs", "label"), SP, Tok("lit", "Berlin"), RB>>

\* the same query in other letter case (that of its string literal included)
\* and spacing
QB == <<K("select"), SP, SP, V("x"), NL, K("where"), LB, V("s"), SP,
        Tok("wdt", "p31"), SP, V("x"), SP, Tok("sym", "."), SP, V("s"), SP,
        Tok("rdfs", "label"), SP, Tok("lit", "BERLIN"), RB, NL>>

\* a key derived from the text as it is given
CacheKeyOfRawText(query, use_cache) ==
    IF use_cache THEN [prefix |-> "sparql_", digest |-> query] ELSE Nil

\* the query search_entities builds (lines 209-222), ending in LIMIT
QS == <<K("SELECT"), SP, V("entity"), SP, K("WHERE"), LB, V("entity"), SP,
        Tok("wdt", "P31"), SP, V("type"), RB, NL, K("LIMIT"), SP,
        Tok("lit", "10"), NL>>

\* the callers' requests: the entry point, the query text it is given and
\* use_cache (True by default, lines 126, 225, 322)
Requests ==
    { [entry |-> "execute_custom_query", q |-> QA, use_cache |-> TRUE],
      [entry |-> "execute_custom_query", q |-> QB, use_cache |-> TRUE],
      [entry |-> "search_entities", q |-> QS, use_cache |-> TRUE],
      [entry |-> "_execute_sparql_query", q |-> QS, use_cache |-> FALSE] }

\* the concurrent callers (one thread per request)
Procs == {"t1", "t2"}

Times == 0..MaxTime

----------------------------------------------------------------------------
(* Exceptions *)

\* the classes an exception of class exc is an instance of
Classes(exc) ==
    CASE exc = "Timeout" -> {"Timeout", "RequestException", "Exception"}
      [] exc = "ConnectionError" -> {"ConnectionError", "RequestException", "Exception"}
      [] exc = "RequestException" -> {"RequestException", "Exception"}
      [] exc = "EndPointInternalError" ->
             {"EndPointInternalError", "SPARQLWrapperException", "Exception"}
      [] exc = "QueryBadFormed" ->
             {"QueryBadFormed", "SPARQLWrapperException", "Exception"}
      [] exc = "SPARQLWrapperException" -> {"SPARQLWrapperException", "Exception"}
      [] exc = "QueryTimeoutException" -> {"QueryTimeoutException", "Exception"}
      [] OTHER -> {exc, "Exception"}

IsInstance(exc, cls) == cls \in Classes(exc)

\* what self.sparql.query().convert() may raise
EndpointErrors ==
    {"Timeout", "ConnectionError", "EndPointInternalError", "QueryBadFormed", "URLError"}

\* the inner try of _execute_sparql_query: the class that leaves it
InnerHandler(exc) ==
    IF IsInstance(exc, "Timeout") THEN "QueryTimeoutException"
    ELSE IF IsInstance(exc, "ConnectionError") THEN "RequestException"
    ELSE exc

\* the outer try of _execute_sparql_query: the class that leaves the method
OuterHandler(exc) ==
    IF IsInstance(exc, "EndPointInternalError") THEN "SPARQLWrapperException"
    ELSE IF IsInstance(exc, "SPARQLWrapperException") THEN exc
    ELSE IF IsInstance(exc, "RequestException") THEN exc
    ELSE "SPARQLWrapperException"

\* views.search_entities: the HTTP status of the branch an exception takes
search_entities_status(exc) ==
    IF IsInstance(exc, "QueryTimeoutException") THEN 408
    ELSE IF IsInstance(exc, "SPARQLWrapperException") THEN 503
    ELSE IF IsInstance(exc, "RequestException") THEN 503
    ELSE 500

----------------------------------------------------------------------------
(* State *)

VARIABLES
    now,            \* the clock (datetime.now)
    coll,           \* the cache collection: a set of documents
    indexes,        \* the collection's TTL indexes: name -> expireAfterSeconds
    cache_manager,  \* the module global _cache_manager of dal/cache_manager.py
    svc,            \* per caller: the WikidataDataService() under construction
    exec,           \* per caller: the execution in progress
    mcm,            \* the MongoCacheManager instance of explorer/cache_manager.py
    ret,            \* what the last call on the MongoCacheManager returned
    lastSet,        \* per key: the value and time of the last completed set
    sparql,         \* the query text set on a SPARQLWrapper that callers share
    arg,            \* the arguments of a call of a pure function
    res             \* what that call returned

vars == <<now, coll, indexes, cache_manager, svc, exec, mcm, ret, lastSet, sparql, arg, res>>

\* Whether the MongoDB server can be reached is decided anew at every call
\* that goes to it (\E up \in BOOLEAN): an outage may begin and end between
\* any two calls.

----------------------------------------------------------------------------
(* The collection: pymongo on the cache collection *)

Doc(key, value, t) == [_id |-> key, data |-> value, created_at |-> t]

\* find_one with a filter that matches any document
find_one_any(c, key) == IF c # {} THEN CHOOSE d \in c : TRUE ELSE Nil

\* collection.find_one({"_id": key}): a matching document, or None
find_one(c, key) ==
    IF \E d \in c : d._id = key THEN CHOOSE d \in c : d._id = key ELSE Nil

\* a read that stamps the document it finds anew (find_one_and_update with
\* $currentDate on created_at: a sliding expiry)
find_one_and_touch(c, key, t) ==
    IF \E d \in c : d._id = key
    THEN LET old == CHOOSE d \in c : d._id = key
         IN  (c \ {old}) \cup {[old EXCEPT !.created_at = t]}
    ELSE c

\* the collection after collection.find_one({"_id": key}) at time t: a query
\* writes nothing
after_find_one(c, key, t) == c

\* an upsert that keeps the payload of a document it finds and only stamps it
\* anew (an update with $setOnInsert on the payload)
update_one_keeping_data(c, key, document) ==
    IF \E d \in c : d._id = key
    THEN LET old == CHOOSE d \in c : d._id = key
         IN  (c \ {old}) \cup {[document EXCEPT !.data = old.data]}
    ELSE c \cup {document}

\* collection.replace_one({"_id": key}, document, upsert=True)
replace_one_upsert(c, key, document) ==
    IF \E d \in c : d._id = key
    THEN (c \ {CHOOSE d \in c : d._id = key}) \cup {document}
    ELSE c \cup {document}

\* get handing out the stored document instead of its 'data' field
get_whole_document(c, key) == find_one(c, key)

\* MongoCacheManager.get, the server reachable
get(c, key) ==
    LET document == find_one(c, key)
    IN  IF document # Nil THEN document.data ELSE Nil

\* set as an insert that removes nothing (the key kept in a field that is not
\* the unique _id)
set_insert_only(c, key, value, t) == c \cup {Doc(key, value, t)}

\* MongoCacheManager.set, the server reachable, at time t
set(c, key, value, t) == replace_one_upsert(c, key, Doc(key, value, t))

\* the age of a document has reached ttl
Expired(d, t, ttl) == t - d.created_at >= ttl

\* CacheManager.get_result: the stored payload if present and unexpired, else
\* None; an unreachable server is a miss
get_result(c, key, up, t, ttl) ==
    IF ~up THEN Nil
    ELSE LET document == find_one(c, key)
         IN  IF document # Nil /\ ~Expired(document, t, ttl)
             THEN document.data ELSE Nil

\* CacheManager.set_result: upsert stamped with the current time; with the
\* server unreachable the write is skipped
set_result(c, key, result, up, t) ==
    IF ~up THEN c ELSE set(c, key, result, t)

\* CacheManager.invalidate_cache, called by clear_cache (lines 332-335): every
\* entry is removed
invalidate_cache(c) == {}

----------------------------------------------------------------------------
(* The environment: the clock and the server's TTL monitor *)

TTL_INDEX == "cache_ttl_index"

Tick ==
    /\ now < MaxTime
    /\ now' = now + 1
    /\ UNCHANGED <<coll, indexes, cache_manager, svc, exec, mcm, ret, lastSet, sparql, arg, res>>

\* the documents a TTL index on created_at lets the server's monitor delete
Evictable(c, idx, t) ==
    {d \in c : \E n \in DOMAIN idx : Expired(d, t, idx[n])}

\* one pass of the server's background TTL monitor (expireAfterSeconds)
TTLMonitor ==
    /\ Evictable(coll, indexes, now) # {}
    /\ coll' = coll \ Evictable(coll, indexes, now)
    /\ UNCHANGED <<now, indexes, cache_manager, svc, exec, mcm, ret, lastSet, sparql, arg, res>>

----------------------------------------------------------------------------
(* Query Executor: WikidataDataService._execute_sparql_query and its callers *)

IdleExec ==
    [pc |-> "idle", entry |-> "", given |-> <<>>, query |-> <<>>,
     use_cache |-> FALSE, cache_key |-> Nil, resp |-> Nil, outcome |-> Nil,
     log |-> <<>>]

OkResponse(result) == [kind |-> "ok", result |-> result, exc |-> ""]
ExcResponse(exc) == [kind |-> "exc", result |-> Nil, exc |-> exc]

\* what the endpoint may answer a dispatched query with
Responses(q) ==
    {OkResponse(Result(q)), OkResponse(EmptyResult)}
        \cup {ExcResponse(e) : e \in EndpointErrors}

Returned(payload, hit) == [kind |-> "return", payload |-> payload, hit |-> hit, exc |-> ""]
Raised(exc) == [kind |-> "raise", payload |-> Nil, hit |-> FALSE, exc |-> exc]

\* execute_custom_query enhances before it executes (line 321); search_entities
\* and a direct call pass their query on as it is
QueryOf(r) ==
    IF r.entry = "execute_custom_query" THEN enhance_query_with_labels(r.q) ELSE r.q

\* line 142
CacheKeyOf(query, use_cache) ==
    IF use_cache THEN generate_cache_key(query) ELSE Nil

\* an execution that never consults the cache
ChecksCacheNever(use_cache, cache_key) == FALSE

\* the condition of line 145 (a key is a non-empty string)
ChecksCache(use_cache, cache_key) == use_cache /\ cache_key # Nil

\* line 147 returning whatever the lookup gave
IsCacheHitAlways(cached_result) == TRUE

\* line 147: if cached_result
IsCacheHit(cached_result) == Truthy(cached_result)

\* the write guarded by the result alone
CachesResultIgnoringUseCache(resp, use_cache, cache_key) ==
    resp.kind = "ok" /\ Truthy(resp.result)

\* the write moved where every outcome reaches it (a finally block)
CachesResultAnyOutcome(resp, use_cache, cache_key) == use_cache /\ cache_key # Nil

\* the write guarded by the negated result
CachesResultWhenEmpty(resp, use_cache, cache_key) ==
    /\ resp.kind = "ok"
    /\ use_cache /\ cache_key # Nil /\ ~Truthy(resp.result)

\* lines 158-166: the write of line 167 is reached only when query().convert()
\* returned and use_cache, cache_key and result are all true
CachesResult(resp, use_cache, cache_key) ==
    /\ resp.kind = "ok"
    /\ use_cache /\ cache_key # Nil /\ Truthy(resp.result)

\* line 170 lost: the method falls off its end and returns None
OutcomeOfNoReturn(resp) ==
    IF resp.kind = "ok" THEN Returned(Nil, FALSE)
    ELSE Raised(OuterHandler(InnerHandler(resp.exc)))

\* lines 158-187: how the execution ends once the endpoint has answered
OutcomeOf(resp) ==
    IF resp.kind = "ok" THEN Returned(resp.result, FALSE)
    ELSE Raised(OuterHandler(InnerHandler(resp.exc)))

\* what an execution's history records of a cache lookup and of a cache write
LookupEvent(cached_result, up) ==
    IF ~up THEN "lookup_unreachable"
    ELSE IF cached_result = Nil THEN "lookup_miss" ELSE "lookup_hit"

WriteEvent(up) == IF up THEN "write" ELSE "write_skipped"

\* a caller enters execute_custom_query, search_entities or
\* _execute_sparql_query: enhancement (if any) and line 142
StartExecution(p, r) ==
    /\ exec[p].pc = "idle"
    /\ cache_manager # Nil
    /\ LET query == QueryOf(r)
           cache_key == CacheKeyOf(query, r.use_cache)
       IN  exec' = [exec EXCEPT ![p] =
               [pc |-> IF ChecksCache(r.use_cache, cache_key) THEN "lookup" ELSE "dispatch",
                entry |-> r.entry, given |-> r.q, query |-> query,
                use_cache |-> r.use_cache, cache_key |-> cache_key,
                resp |-> Nil, outcome |-> Nil,
                log |-> (IF r.entry = "execute_custom_query" THEN <<"enhance">> ELSE <<>>)
                          \o (IF r.use_cache THEN <<"key">> ELSE <<>>)]]
    /\ UNCHANGED <<now, coll, indexes, cache_manager, svc, mcm, ret, lastSet, sparql, arg, res>>

\* lines 145-149
Lookup(p) ==
    /\ exec[p].pc = "lookup"
    /\ \E up \in BOOLEAN :
         LET cached_result ==
                 get_result(coll, exec[p].cache_key, up, now, cache_manager.ttl_seconds)
             event == LookupEvent(cached_result, up)
         IN  exec' = [exec EXCEPT ![p] =
                 IF IsCacheHit(cached_result)
                 THEN [@ EXCEPT !.pc = "done", !.outcome = Returned(cached_result, TRUE),
                                !.log = Append(@, event)]
                 ELSE [@ EXCEPT !.pc = "dispatch", !.log = Append(@, event)]]
    /\ UNCHANGED <<now, coll, indexes, cache_manager, svc, mcm, ret, lastSet, sparql, arg, res>>

\* a loop that dispatches again after a failure
PcAfterRetrying(r) == IF r.kind = "exc" THEN "dispatch" ELSE "done"

\* lines 165-187: every path returns or raises, the execution is over
PcAfter(r) == "done"

\* lines 165-187 for the execution of p once the endpoint has answered r: the
\* cache write, if these lines reach it, and the return or the raise
Complete(p, r, log) ==
    \E up \in BOOLEAN :
        LET e == exec[p]
            writes == CachesResult(r, e.use_cache, e.cache_key)
        IN  /\ writes \/ up
            /\ coll' = IF writes
                       THEN set_result(coll, e.cache_key, r.result, up, now)
                       ELSE coll
            /\ exec' = [exec EXCEPT ![p] =
                   [@ EXCEPT !.pc = PcAfter(r), !.resp = r, !.outcome = OutcomeOf(r),
                             !.log = IF writes THEN Append(log, WriteEvent(up)) ELSE log]]

\* lines 153-163: setQuery and query().convert() on the service's own wrapper.
\* A result is held for the lines that follow; an exception runs through the
\* handlers and leaves the method in the same step
Dispatch(p) ==
    /\ exec[p].pc = "dispatch"
    /\ \E r \in Responses(exec[p].query) :
          IF r.kind = "ok"
          THEN /\ exec' = [exec EXCEPT ![p] =
                      [@ EXCEPT !.pc = "responded", !.resp = r,
                                !.log = Append(@, "dispatch")]]
               /\ coll' = coll
          ELSE Complete(p, r, Append(exec[p].log, "dispatch"))
    /\ UNCHANGED <<now, indexes, cache_manager, svc, mcm, ret, lastSet, sparql, arg, res>>

\* lines 165-170: the cache write and the return
Finish(p) ==
    /\ exec[p].pc = "responded"
    /\ Complete(p, exec[p].resp, exec[p].log)
    /\ UNCHANGED <<now, indexes, cache_manager, svc, mcm, ret, lastSet, sparql, arg, res>>

\* the caller takes the outcome
Return(p) ==
    /\ exec[p].pc = "done"
    /\ exec' = [exec EXCEPT ![p] = IdleExec]
    /\ UNCHANGED <<now, coll, indexes, cache_manager, svc, mcm, ret, lastSet, sparql, arg, res>>

\* a clear that blanks the stored payloads instead of deleting the documents
clear_cache_blanking(c) == {[d EXCEPT !.data = EmptyResult] : d \in c}

\* a clear that leaves the entries where they are
clear_cache_noop(c) == c

\* WikidataDataService.clear_cache (lines 332-335)
clear_cache(c) == invalidate_cache(c)

\* CacheManager.get_cache_stats, the server reachable
get_cache_stats(c, ttl) == [entry_count |-> Cardinality(c), ttl_seconds |-> ttl]

\* the administrative clear (views.cache_management, clear_cache) with the
\* server reachable
ClearCache ==
    /\ cache_manager # Nil
    /\ coll # {}
    /\ coll' = clear_cache(coll)
    /\ UNCHANGED <<now, indexes, cache_manager, svc, exec, mcm, ret, lastSet, sparql, arg, res>>

NoMcm == [pc |-> "none", ttl_seconds |-> TTL, failed |-> ""]

\* no pure function is being called
NoArg == [f |-> "none"]

\* no call on the MongoCacheManager has returned yet
NoCall == [op |-> "none", key |-> "", kind |-> "none", value |-> Nil, at |-> 0]

\* the keys and values callers of the MongoCacheManager use
StoreKeys == {"k1", "k2"}
StoreValues == {[a |-> 1], [a |-> 2]}

\* a constructed dal CacheManager
Manager(p, ttl) == [kind |-> "CacheManager", by |-> p, ttl_seconds |-> ttl]

IdleSvc ==
    [pc |-> "idle", cache_manager |-> Nil, failed |-> "", after |-> "idle",
     existing_ttl |-> <<>>]

\* the engine after start-up: the cache manager constructed over an empty
\* collection, nothing in progress
Init ==
    /\ now = 0
    /\ coll = {}
    /\ indexes = [n \in {TTL_INDEX} |-> TTL]
    /\ cache_manager = Manager("t1", TTL)
    /\ svc = [p \in Procs |-> IdleSvc]
    /\ exec = [p \in Procs |-> IdleExec]
    /\ mcm = NoMcm
    /\ ret = NoCall
    /\ lastSet = [k \in StoreKeys |-> Nil]
    /\ sparql = <<>>
    /\ arg = NoArg
    /\ res = Nil

Next ==
    \/ \E p \in Procs : \E r \in Requests : StartExecution(p, r)
    \/ \E p \in Procs : Lookup(p)
    \/ \E p \in Procs : Dispatch(p)
    \/ \E p \in Procs : Finish(p)
    \/ \E p \in Procs : Return(p)
    \/ ClearCache
    \/ TTLMonitor
    \/ Tick

Spec == Init /\ [][Next]_vars

----------------------------------------------------------------------------
(* Properties of the Query Executor *)

InLog(log, event) == \E i \in 1..Len(log) : log[i] = event

Last(log) == log[Len(log)]

\* the step is one of caller p's execution
Steps(p) == exec'[p] # exec[p]

\* caller p's step calls set_result and the server takes the write
WritesNow(p) == Steps(p) /\ InLog(exec'[p].log, "write") /\ ~InLog(exec[p].log, "write")

\* C1: an execution that ends in a timeout, a network failure or an endpoint
\* error has written nothing: the step that ends it leaves the collection as
\* it was, its history holds no cache write, and a caller's step changes the
\* collection only when it is that caller's cache write.
C1_NoWriteOnFailure ==
    [][\A p \in Procs : Steps(p) =>
          /\ (coll' # coll => WritesNow(p))
          /\ (exec'[p].pc = "done" /\ exec'[p].outcome.kind = "raise" =>
                 /\ coll' = coll
                 /\ ~InLog(exec'[p].log, "write")
                 /\ ~InLog(exec'[p].log, "write_skipped"))]_vars

C1_Witness ==
    \E p \in Procs :
        /\ exec[p].pc = "done" /\ exec[p].use_cache
        /\ exec[p].resp.kind = "exc" /\ exec[p].resp.exc = "Timeout"
        /\ exec[p].outcome.kind = "raise"
        /\ find_one(coll, exec[p].cache_key) = Nil

\* C2: an execution whose endpoint call timed out ends with
\* QueryTimeoutException, and search_entities answers it with HTTP 408.
C2_TimeoutEndsAsQueryTimeout ==
    \A p \in Procs :
        (exec[p].pc = "done" /\ exec[p].resp.kind = "exc" /\ exec[p].resp.exc = "Timeout")
            => /\ exec[p].outcome.kind = "raise"
               /\ exec[p].outcome.exc = "QueryTimeoutException"
               /\ search_entities_status(exec[p].outcome.exc) = 408

\* C3 as stated: an execution that ends in a cache hit has performed no query
\* enhancement, no endpoint call and no cache write.
C3_HitWithoutEnhancement ==
    \A p \in Procs :
        (exec[p].pc = "done" /\ exec[p].outcome.kind = "return" /\ exec[p].outcome.hit)
            => /\ ~InLog(exec[p].log, "enhance")
               /\ ~InLog(exec[p].log, "dispatch")
               /\ ~InLog(exec[p].log, "write")

\* C3 amended: a cache hit ends the execution in the step of the lookup, with
\* the payload stored under the execution's key, unexpired, and the collection
\* unchanged; nothing follows the lookup in its history (no enhancement, no
\* endpoint call, no cache write), and before it there is only the key
\* derivation, preceded by the enhancement when the execution came through
\* execute_custom_query.
C3_HitReturnsStoredAtOnce ==
    [][\A p \in Procs :
          (Steps(p) /\ exec'[p].pc = "done" /\ exec'[p].outcome.kind = "return"
                    /\ exec'[p].outcome.hit)
          => /\ exec[p].pc = "lookup"
             /\ coll' = coll
             /\ \E d \in coll : /\ d._id = exec[p].cache_key
                                /\ d.data = exec'[p].outcome.payload
                                /\ ~Expired(d, now, cache_manager.ttl_seconds)
             /\ exec'[p].log = Append(exec[p].log, "lookup_hit")
             /\ exec[p].log \in {<<"key">>, <<"enhance", "key">>}
             /\ (InLog(exec[p].log, "enhance") <=> exec[p].entry = "execute_custom_query")]_vars

C3_Witness ==
    \E p \in Procs :
        /\ exec[p].pc = "done" /\ exec[p].outcome.kind = "return" /\ exec[p].outcome.hit
        /\ exec[p].entry = "execute_custom_query"
        /\ exec[p].log = <<"enhance", "key", "lookup_hit">>

C9_EverySuccessWrites ==
    \A p \in Procs :
        (exec[p].pc = "done" /\ exec[p].resp.kind = "ok" /\ exec[p].use_cache)
            => InLog(exec[p].log, "write") \/ InLog(exec[p].log, "write_skipped")

\* C9 amended: an execution whose dispatch succeeded with caching enabled and
\* a non-empty result hands the raw result to the cache in the step that
\* returns it, under the key it derived from its query and looked up before
\* dispatching; with the server reachable the entry is then stored, stamped
\* with the current time.  An empty result is returned without a cache write.
C9_NonEmptySuccessWrites ==
    [][\A p \in Procs :
          (Steps(p) /\ exec'[p].pc = "done" /\ exec'[p].resp.kind = "ok" /\ exec[p].use_cache)
          => /\ exec'[p].cache_key = exec[p].cache_key
             /\ exec[p].cache_key = generate_cache_key(exec[p].query)
             /\ Truthy(exec'[p].resp.result) =>
                   /\ Last(exec'[p].log) \in {"write", "write_skipped"}
                   /\ exec[p].log[Len(exec[p].log)] = "dispatch"
                   /\ exec[p].log[Len(exec[p].log) - 1] \in {"lookup_miss", "lookup_unreachable"}
                   /\ Last(exec'[p].log) = "write" =>
                         Doc(exec[p].cache_key, exec'[p].resp.result, now) \in coll'
                   /\ exec'[p].outcome = Returned(exec'[p].resp.result, FALSE)
             /\ ~Truthy(exec'[p].resp.result) =>
                   coll' = coll /\ exec'[p].log = exec[p].log]_vars

C9_Witness ==
    \E p \in Procs :
        /\ exec[p].pc = "done" /\ Last(exec[p].log) = "write"
        /\ Doc(exec[p].cache_key, Result(exec[p].query), now) \in coll
        /\ exec[p].outcome = Returned(Result(exec[p].query), FALSE)

\* C10: in every interleaving the collection holds at most one document per
\* key; a cache write leaves under its key exactly the document of that write
\* (the whole result, stamped with the time of the write) and touches no other
\* key, and no other step adds or alters a document.  So the entry of a key is
\* always the whole document of the last write to it.
C10_LastWriteWins ==
    [][/\ \A d1, d2 \in coll' : d1._id = d2._id => d1 = d2
       /\ \A p \in Procs : WritesNow(p) =>
             coll' = {d \in coll : d._id # exec[p].cache_key}
                        \cup {Doc(exec[p].cache_key, exec[p].resp.result, now)}
       /\ (\A p \in Procs : ~WritesNow(p)) => coll' \subseteq coll]_vars

C10_Witness ==
    \E p, q \in Procs :
        /\ p # q
        /\ exec[p].pc = "done" /\ exec[q].pc = "done"
        /\ Last(exec[p].log) = "write" /\ Last(exec[q].log) = "write"
        /\ exec[p].cache_key = exec[q].cache_key
        /\ exec[p].resp.result # exec[q].resp.result
        /\ coll = {Doc(exec[q].cache_key, exec[q].resp.result, now)}

----------------------------------------------------------------------------
(* TTL Cache Store: MongoCacheManager of explorer/cache_manager.py *)

INDEX_NAME == "explorer_ttl_index"

\* an expireAfterSeconds left behind by an earlier deployment
StaleTTLs == {0, TTL + 1}

\* __init__ up to index_information() (lines 14-44; MongoClient connects
\* lazily, so this is the first call that goes to the server): unreachable,
\* the exception is logged and raised again; the index found, it is taken as
\* it is; else it is to be created
McmInit ==
    /\ mcm.pc \in {"none", "raised"}
    /\ \E up \in BOOLEAN :
          mcm' = IF ~up THEN [pc |-> "raised", ttl_seconds |-> TTL, failed |-> "index_information"]
                 ELSE IF INDEX_NAME \in DOMAIN indexes
                      THEN [pc |-> "ready", ttl_seconds |-> TTL, failed |-> ""]
                      ELSE [pc |-> "create", ttl_seconds |-> TTL, failed |-> ""]
    /\ UNCHANGED <<now, coll, indexes, cache_manager, svc, exec, ret, lastSet, sparql, arg, res>>

\* create_indexes of _ensure_ttl_index (line 47)
McmCreateIndex ==
    /\ mcm.pc = "create"
    /\ \E up \in BOOLEAN :
          IF up
          THEN /\ indexes' = IF INDEX_NAME \in DOMAIN indexes THEN indexes
                             ELSE [n \in DOMAIN indexes \cup {INDEX_NAME} |->
                                      IF n = INDEX_NAME THEN mcm.ttl_seconds ELSE indexes[n]]
               /\ mcm' = [mcm EXCEPT !.pc = "ready"]
          ELSE /\ indexes' = indexes
               /\ mcm' = [mcm EXCEPT !.pc = "raised", !.failed = "create_indexes"]
    /\ UNCHANGED <<now, coll, cache_manager, svc, exec, ret, lastSet, sparql, arg, res>>

GetReturn(key, value, t) == [op |-> "get", key |-> key, kind |-> "return", value |-> value, at |-> t]
SetReturn(key, value, t) == [op |-> "set", key |-> key, kind |-> "return", value |-> value, at |-> t]
CallRaises(op, key, t) == [op |-> op, key |-> key, kind |-> "raise", value |-> Nil, at |-> t]

\* a caller's get(key): pymongo raises when the server cannot be reached
McmGet(key) ==
    /\ mcm.pc = "ready"
    /\ \E up \in BOOLEAN :
          /\ ret' = IF up THEN GetReturn(key, get(coll, key), now)
                          ELSE CallRaises("get", key, now)
          /\ coll' = IF up THEN after_find_one(coll, key, now) ELSE coll
    /\ UNCHANGED <<now, indexes, cache_manager, svc, exec, mcm, lastSet, sparql, arg, res>>

\* a caller's set(key, value)
McmSet(key, value) ==
    /\ mcm.pc = "ready"
    /\ \E up \in BOOLEAN :
          IF up
          THEN /\ coll' = set(coll, key, value, now)
               /\ ret' = SetReturn(key, value, now)
               /\ lastSet' = [lastSet EXCEPT ![key] = [value |-> value, at |-> now]]
          ELSE /\ ret' = CallRaises("set", key, now)
               /\ UNCHANGED <<coll, lastSet>>
    /\ UNCHANGED <<now, indexes, cache_manager, svc, exec, mcm, sparql, arg, res>>

\* the store before a MongoCacheManager is constructed: the collection may
\* carry the TTL index of an earlier deployment
InitStore ==
    /\ now = 0
    /\ coll = {}
    /\ indexes \in {[n \in {} |-> 0]}
                     \cup {[n \in {INDEX_NAME} |-> t] : t \in {TTL} \cup StaleTTLs}
    /\ cache_manager = Nil
    /\ svc = [p \in Procs |-> IdleSvc]
    /\ exec = [p \in Procs |-> IdleExec]
    /\ mcm = NoMcm
    /\ ret = NoCall
    /\ lastSet = [k \in StoreKeys |-> Nil]
    /\ sparql = <<>>
    /\ arg = NoArg
    /\ res = Nil

NextStore ==
    \/ McmInit
    \/ McmCreateIndex
    \/ \E k \in StoreKeys : McmGet(k)
    \/ \E k \in StoreKeys : \E v \in StoreValues : McmSet(k, v)
    \/ TTLMonitor
    \/ Tick

SpecStore == InitStore /\ [][NextStore]_vars

\* the expireAfterSeconds the collection's TTL index enforces
EffectiveTTL == indexes[INDEX_NAME]

\* the step is a get that returned
GetReturned == ret' # ret /\ ret'.op = "get" /\ ret'.kind = "return"

\* C4: get(key) never returns an entry whose age has reached the TTL, also
\* while the server's TTL monitor has not yet removed it.
C4_GetNeverReturnsExpired ==
    [][(GetReturned /\ ret'.value # Nil) =>
          \E d \in coll : /\ d._id = ret'.key /\ d.data = ret'.value
                          /\ ~Expired(d, now, mcm.ttl_seconds)]_vars

----------------------------------------------------------------------------
(* Construction: get_cache_manager and CacheManager.__init__ of
   explorer/dal/cache_manager.py, called by WikidataDataService.__init__ *)

\* a connectivity check that lets construction go on whatever the answer
PingOutcomeSwallowed(up) == "list_indexes"

\* the ping of __init__ (line 66): ServerSelectionTimeoutError is logged and
\* raised again (lines 74-76)
PingOutcome(up) == IF up THEN "list_indexes" ELSE "raised"

WithIndex(idx, name, ttl) ==
    [n \in DOMAIN idx \cup {name} |-> IF n = name THEN ttl ELSE idx[n]]

WithoutIndex(idx, name) == [n \in DOMAIN idx \ {name} |-> idx[n]]

\* WikidataDataService() (each request of views.py makes one): __init__
\* calls get_cache_manager()
NewService(p) ==
    /\ svc[p].pc \in {"idle", "raised", "ready"}
    /\ svc' = [svc EXCEPT ![p] = [pc |-> "get_cache_manager", cache_manager |-> Nil,
                                   failed |-> "", after |-> svc[p].pc,
                                   existing_ttl |-> <<>>]]
    /\ UNCHANGED <<now, coll, indexes, cache_manager, exec, mcm, ret, lastSet, sparql, arg, res>>

\* get_cache_manager: if _cache_manager is None (line 122)
CheckSingleton(p) ==
    /\ svc[p].pc = "get_cache_manager"
    /\ svc' = [svc EXCEPT ![p].pc = IF cache_manager = Nil THEN "ping" ELSE "return"]
    /\ UNCHANGED <<now, coll, indexes, cache_manager, exec, mcm, ret, lastSet, sparql, arg, res>>

\* CacheManager.__init__: client.admin.command('ping')
Ping(p) ==
    /\ svc[p].pc = "ping"
    /\ \E up \in BOOLEAN :
          svc' = [svc EXCEPT ![p].pc = PingOutcome(up),
                             ![p].failed = IF up THEN "" ELSE "ping"]
    /\ UNCHANGED <<now, coll, indexes, cache_manager, exec, mcm, ret, lastSet, sparql, arg, res>>

\* _setup_ttl_index: list_indexes and the comparison (lines 87-97), with
\* existing_ttl the expireAfterSeconds found, if the index was found; a
\* PyMongoError is logged as a warning and construction goes on (lines 99-100)
ListIndexes(p) ==
    /\ svc[p].pc = "list_indexes"
    /\ \E up \in BOOLEAN :
          svc' = [svc EXCEPT
                    ![p].pc = IF ~up THEN "assign"
                              ELSE IF TTL_INDEX \notin DOMAIN indexes THEN "create_index"
                              ELSE IF indexes[TTL_INDEX] # TTL THEN "drop_index"
                              ELSE "assign",
                    ![p].failed = IF up THEN "" ELSE "list_indexes",
                    ![p].existing_ttl = IF up /\ TTL_INDEX \in DOMAIN indexes
                                        THEN <<indexes[TTL_INDEX]>> ELSE <<>>]
    /\ UNCHANGED <<now, coll, indexes, cache_manager, exec, mcm, ret, lastSet, sparql, arg, res>>

\* drop_index (line 92): unreachable, or the index already gone, the
\* PyMongoError is swallowed and the index is not created
DropIndex(p) ==
    /\ svc[p].pc = "drop_index"
    /\ \E up \in BOOLEAN :
          IF up /\ TTL_INDEX \in DOMAIN indexes
          THEN /\ indexes' = WithoutIndex(indexes, TTL_INDEX)
               /\ svc' = [svc EXCEPT ![p].pc = "create_index"]
          ELSE /\ indexes' = indexes
               /\ svc' = [svc EXCEPT ![p].pc = "assign", ![p].failed = "drop_index"]
    /\ UNCHANGED <<now, coll, cache_manager, exec, mcm, ret, lastSet, sparql, arg, res>>

\* _create_ttl_index (lines 102-110): the server refuses an index of the same
\* name with other options; that error too is swallowed
CreateIndex(p) ==
    /\ svc[p].pc = "create_index"
    /\ \E up \in BOOLEAN :
          IF up /\ TTL_INDEX \notin DOMAIN indexes
          THEN /\ indexes' = WithIndex(indexes, TTL_INDEX, TTL)
               /\ svc' = [svc EXCEPT ![p].pc = "assign"]
          ELSE /\ indexes' = indexes
               /\ svc' = [svc EXCEPT ![p].pc = "assign",
                             ![p].failed = IF up /\ indexes[TTL_INDEX] = TTL
                                           THEN "" ELSE "create_index"]
    /\ UNCHANGED <<now, coll, cache_manager, exec, mcm, ret, lastSet, sparql, arg, res>>

\* _cache_manager = CacheManager() (line 123)
AssignSingleton(p) ==
    /\ svc[p].pc = "assign"
    /\ cache_manager' = Manager(p, TTL)
    /\ svc' = [svc EXCEPT ![p].pc = "return"]
    /\ UNCHANGED <<now, coll, indexes, exec, mcm, ret, lastSet, sparql, arg, res>>

\* return _cache_manager (line 124), kept as self.cache_manager
ReturnSingleton(p) ==
    /\ svc[p].pc = "return"
    /\ svc' = [svc EXCEPT ![p].pc = "ready", ![p].cache_manager = cache_manager]
    /\ UNCHANGED <<now, coll, indexes, cache_manager, exec, mcm, ret, lastSet, sparql, arg, res>>

\* the process starts: no cache manager yet; the collection may carry the
\* TTL index of an earlier deployment
InitConstruct ==
    /\ now = 0
    /\ coll = {}
    /\ indexes \in {[n \in {} |-> 0]}
                     \cup {[n \in {TTL_INDEX} |-> t] : t \in {TTL} \cup StaleTTLs}
                     \cup {[n \in {INDEX_NAME} |-> t] : t \in {TTL} \cup StaleTTLs}
    /\ cache_manager = Nil
    /\ svc = [p \in Procs |-> IdleSvc]
    /\ exec = [p \in Procs |-> IdleExec]
    /\ mcm = NoMcm
    /\ ret = NoCall
    /\ lastSet = [k \in StoreKeys |-> Nil]
    /\ sparql = <<>>
    /\ arg = NoArg
    /\ res = Nil

NextConstruct ==
    \/ \E p \in Procs : NewService(p)
    \/ \E p \in Procs : CheckSingleton(p)
    \/ \E p \in Procs : Ping(p)
    \/ \E p \in Procs : ListIndexes(p)
    \/ \E p \in Procs : DropIndex(p)
    \/ \E p \in Procs : CreateIndex(p)
    \/ \E p \in Procs : AssignSingleton(p)
    \/ \E p \in Procs : ReturnSingleton(p)
    \/ McmInit
    \/ McmCreateIndex

SpecConstruct == InitConstruct /\ [][NextConstruct]_vars

\* caller p's construction has gone through: the constructor returned
Constructed(p) == svc[p].pc \in {"assign", "return", "ready"}

----------------------------------------------------------------------------
(* Properties of construction under concurrency *)

\* C11: across any interleaving of concurrent WikidataDataService
\* constructions the cache manager is constructed at most once, and every
\* get_cache_manager call returns that one instance: a constructor that has
\* run to its end finds no instance made by another, and any two services
\* hold the same instance.
C11_OneInstance ==
    /\ \A p, q \in Procs :
          (svc[p].pc = "ready" /\ svc[q].pc = "ready")
              => svc[p].cache_manager = svc[q].cache_manager
    /\ \A p \in Procs :
          svc[p].pc = "assign" =>
              /\ cache_manager = Nil
              /\ \A q \in Procs \ {p} : svc[q].pc # "assign"

----------------------------------------------------------------------------
(* Two executions on one WikidataDataService instance: self.sparql, made in
   __init__ (line 36), is the instance's one SPARQLWrapper *)

\* line 153: self.sparql.setQuery(query)
SetQuery(p) ==
    /\ exec[p].pc = "dispatch"
    /\ sparql' = exec[p].query
    /\ exec' = [exec EXCEPT ![p].pc = "query"]
    /\ UNCHANGED <<now, coll, indexes, cache_manager, svc, mcm, ret, lastSet, arg, res>>

\* lines 159-163: self.sparql.query().convert() sends the text the wrapper
\* holds now
Query(p) ==
    /\ exec[p].pc = "query"
    /\ \E r \in Responses(sparql) :
          IF r.kind = "ok"
          THEN /\ exec' = [exec EXCEPT ![p] =
                      [@ EXCEPT !.pc = "responded", !.resp = r,
                                !.log = Append(@, "dispatch")]]
               /\ coll' = coll
          ELSE Complete(p, r, Append(exec[p].log, "dispatch"))
    /\ UNCHANGED <<now, indexes, cache_manager, svc, mcm, ret, lastSet, sparql, arg, res>>

NextShared ==
    \/ \E p \in Procs : \E r \in Requests : StartExecution(p, r)
    \/ \E p \in Procs : Lookup(p)
    \/ \E p \in Procs : SetQuery(p)
    \/ \E p \in Procs : Query(p)
    \/ \E p \in Procs : Finish(p)
    \/ \E p \in Procs : Return(p)

SpecShared == Init /\ [][NextShared]_vars

\* C12: the query an execution dispatches is the query it was given, so a
\* payload held or written under key k is the endpoint's answer to a query
\* whose key is k, also for two executions on one service instance.
C12_DispatchesOwnQuery ==
    /\ \A p \in Procs :
          (exec[p].resp # Nil /\ exec[p].resp.kind = "ok" /\ Truthy(exec[p].resp.result))
              => exec[p].resp.result.q = exec[p].query
    /\ \A d \in coll :
          Truthy(d.data) => generate_cache_key(d.data.q) = d._id

----------------------------------------------------------------------------
(* Cache Administration: views.cache_management calling clear_cache and
   get_cache_stats while executions are in flight *)

ClearReturn(removed, t) ==
    [op |-> "clear", key |-> "", kind |-> "return", value |-> [removed |-> removed], at |-> t]
StatsReturn(stats, t) ==
    [op |-> "stats", key |-> "", kind |-> "return", value |-> stats, at |-> t]

\* POST action=clear_cache (views.py lines 157-161): an unreachable server
\* ends the request in the error branch of lines 166-171
AdminClear ==
    /\ cache_manager # Nil
    /\ \E up \in BOOLEAN :
          IF up
          THEN /\ coll' = clear_cache(coll)
               /\ ret' = ClearReturn(Cardinality(coll), now)
          ELSE /\ coll' = coll
               /\ ret' = CallRaises("clear", "", now)
    /\ UNCHANGED <<now, indexes, cache_manager, svc, exec, mcm, lastSet, sparql, arg, res>>

\* get_cache_stats (views.py line 164, data_service.py lines 328-330)
AdminStats ==
    /\ cache_manager # Nil
    /\ \E up \in BOOLEAN :
          ret' = IF up THEN StatsReturn(get_cache_stats(coll, cache_manager.ttl_seconds), now)
                 ELSE CallRaises("stats", "", now)
    /\ UNCHANGED <<now, coll, indexes, cache_manager, svc, exec, mcm, lastSet, sparql, arg, res>>

NextAdmin ==
    \/ \E p \in Procs : \E r \in Requests : StartExecution(p, r)
    \/ \E p \in Procs : Lookup(p)
    \/ \E p \in Procs : Dispatch(p)
    \/ \E p \in Procs : Finish(p)
    \/ \E p \in Procs : Return(p)
    \/ AdminClear
    \/ AdminStats

SpecAdmin == Init /\ [][NextAdmin]_vars

\* the exception classes the executor's callers are told of
Classified(exc) ==
    \/ IsInstance(exc, "QueryTimeoutException")
    \/ IsInstance(exc, "SPARQLWrapperException")
    \/ IsInstance(exc, "RequestException")

\* C13: with clear() and stats() interleaved at will, the step that ends an
\* execution ends it in a hit that returns the payload stored under its key,
\* in a success that returns the result of its own dispatch, or in a
\* classified failure; and a document enters the collection only as the
\* write of an execution whose dispatch succeeded, under that execution's
\* key and with that dispatch's result.
C13_AdminInterleavingSafe ==
    /\ [][\A p \in Procs : (Steps(p) /\ exec'[p].pc = "done") =>
            LET o == exec'[p].outcome
            IN  \/ /\ o.kind = "return" /\ o.hit
                   /\ \E d \in coll : d._id = exec[p].cache_key /\ d.data = o.payload
                \/ /\ o.kind = "return" /\ ~o.hit
                   /\ exec'[p].resp.kind = "ok" /\ o.payload = exec'[p].resp.result
                \/ o.kind = "raise" /\ Classified(o.exc)]_vars
    /\ [][\A d \in coll' \ coll : \E p \in Procs :
            /\ WritesNow(p) /\ d._id = exec[p].cache_key
            /\ exec'[p].resp.kind = "ok" /\ d.data = exec'[p].resp.result]_vars

C13_Witness ==
    \E p, q \in Procs :
        /\ ret.op = "clear" /\ ret.kind = "return" /\ ret.value.removed > 0
        /\ exec[p].pc = "done" /\ exec[p].outcome.kind = "return" /\ exec[p].outcome.hit
        /\ exec[q].pc = "responded"
        /\ coll = {}

\* the step is a clear, or a stats, that returned
ClearReturned == ret' # ret /\ ret'.op = "clear" /\ ret'.kind = "return"
StatsReturned == ret' # ret /\ ret'.op = "stats" /\ ret'.kind = "return"

\* C14: a clear() that returns leaves no entry, whatever the cache held; the
\* cache stays empty until an execution's write; and while it is empty
\* stats() reports entry_count 0 and every lookup returns nothing (the
\* execution goes on to dispatch).
C14_ClearThenEmpty ==
    /\ [][ClearReturned => coll' = {}]_vars
    /\ [][(coll = {} /\ coll' # {}) => \E p \in Procs : WritesNow(p)]_vars
    /\ [][StatsReturned =>
            /\ ret'.value.entry_count = Cardinality(coll)
            /\ coll = {} => ret'.value.entry_count = 0]_vars
    /\ [][\A p \in Procs : (Steps(p) /\ exec[p].pc = "lookup" /\ coll = {}) =>
            /\ exec'[p].pc = "dispatch"
            /\ Last(exec'[p].log) \in {"lookup_miss", "lookup_unreachable"}]_vars

\* stats() has reported 0 after a clear() emptied a cache that an execution,
\* since done, had written to
C14_Witness ==
    \E p \in Procs :
        /\ ret.op = "stats" /\ ret.kind = "return" /\ ret.value.entry_count = 0
        /\ coll = {}
        /\ exec[p].pc = "done" /\ InLog(exec[p].log, "write")

----------------------------------------------------------------------------
(* Key Deriver: generate_cache_key as a function of its argument *)

\* the texts of up to n tokens over an alphabet
TextsUpTo(alphabet, n) == UNION {[1..k -> alphabet] : k \in 0..n}

\* a keyword in both letter cases, a blank and a line break
KeyAlphabet == {K("SELECT"), K("select"), SP, NL}

\* two callers' query strings
InitKey ==
    /\ now = 0
    /\ coll = {}
    /\ indexes = [n \in {TTL_INDEX} |-> TTL]
    /\ cache_manager = Nil
    /\ svc = [p \in Procs |-> IdleSvc]
    /\ exec = [p \in Procs |-> IdleExec]
    /\ mcm = NoMcm
    /\ ret = NoCall
    /\ lastSet = [k \in StoreKeys |-> Nil]
    /\ sparql = <<>>
    /\ arg \in [f : {"generate_cache_key"},
                q1 : TextsUpTo(KeyAlphabet, MaxLen), q2 : TextsUpTo(KeyAlphabet, MaxLen)]
    /\ res = Nil

\* generate_cache_key(q1), generate_cache_key(q2), and generate_cache_key(q1)
\* once more
DeriveKeys ==
    /\ arg.f = "generate_cache_key"
    /\ res = Nil
    /\ res' = [k1 |-> generate_cache_key(arg.q1), k2 |-> generate_cache_key(arg.q2),
               again |-> generate_cache_key(arg.q1)]
    /\ UNCHANGED <<now, coll, indexes, cache_manager, svc, exec, mcm, ret, lastSet, sparql, arg>>

SpecKey == InitKey /\ [][DeriveKeys]_vars

RECURSIVE CanonFrom(_, _, _)
\* the text read as words: every token that is not white space in lower
\* case, one blank between two words that white space separates
CanonFrom(s, i, seen) ==
    IF i > Len(s) THEN <<>>
    ELSE IF IsSpace(s[i]) THEN CanonFrom(s, i + 1, seen)
    ELSE (IF seen /\ IsSpace(s[i - 1]) THEN <<SP>> ELSE <<>>)
            \o <<LowerTok(s[i])>> \o CanonFrom(s, i + 1, TRUE)

Canon(s) == CanonFrom(s, 1, FALSE)

\* C15: two strings that are equal after trimming, collapsing each run of
\* white space to one blank and lower-casing have the same key, and a second
\* call on the same string gives the same key as the first.
C15_KeyDeterminism ==
    res # Nil =>
        /\ Canon(arg.q1) = Canon(arg.q2) => res.k1 = res.k2
        /\ res.again = res.k1

C15_Witness ==
    /\ res # Nil
    /\ arg.q1 # arg.q2 /\ Len(arg.q1) = MaxLen
    /\ Canon(arg.q1) = Canon(arg.q2) /\ Len(Canon(arg.q1)) > 1
    /\ res.k1 = res.k2

----------------------------------------------------------------------------
(* Properties of the TTL index set-up *)

\* C16: a CacheManager constructed with ttl_seconds = T that found the TTL
\* index with another expireAfterSeconds has, once its constructor returns,
\* replaced it by one with T; one that found it with T has left it in place.
C16_IndexReconciled ==
    \A p \in Procs :
        (svc[p].pc = "assign" /\ svc[p].existing_ttl # <<>>) =>
            /\ TTL_INDEX \in DOMAIN indexes
            /\ indexes[TTL_INDEX] = TTL

----------------------------------------------------------------------------
(* Properties of failure classification and dispatch *)

\* the exceptions of a dispatch that never reached the endpoint:
\* requests' ConnectionError and urllib's URLError (refused, reset, DNS)
ConnectionLevel == {"ConnectionError", "URLError"}

\* C17: a dispatch failure never ends as a returned payload; a
\* connection-level failure ends the execution with RequestException, an
\* error the endpoint reported (EndPointInternalError or another
\* SPARQLWrapperException) with SPARQLWrapperException.
C17_FailureKindMatchesCause ==
    \A p \in Procs :
        (exec[p].pc = "done" /\ exec[p].resp # Nil /\ exec[p].resp.kind = "exc") =>
            /\ exec[p].outcome.kind = "raise"
            /\ exec[p].resp.exc \in ConnectionLevel
                  => IsInstance(exec[p].outcome.exc, "RequestException")
            /\ IsInstance(exec[p].resp.exc, "SPARQLWrapperException")
                  => IsInstance(exec[p].outcome.exc, "SPARQLWrapperException")

\* how often an event occurs in an execution's history
Count(log, event) == Cardinality({i \in 1..Len(log) : log[i] = event})

\* C18: an execution dispatches to the endpoint at most once; once the
\* endpoint has answered, with a result or with a failure, no step of the
\* execution dispatches again.
C18_AtMostOneDispatch ==
    /\ [](\A p \in Procs : Count(exec[p].log, "dispatch") <= 1)
    /\ [][\A p \in Procs :
            (Steps(p) /\ exec[p].resp # Nil) =>
                (exec'[p] = IdleExec \/ exec'[p].log = exec[p].log
                    \/ Last(exec'[p].log) # "dispatch")]_vars

C18_Witness ==
    \E p, q \in Procs :
        /\ exec[p].pc = "done" /\ exec[p].outcome.kind = "raise"
        /\ exec[p].resp.exc = "Timeout"
        /\ Count(exec[p].log, "dispatch") = 1
        /\ exec[q].pc = "done" /\ exec[q].outcome.kind = "return" /\ ~exec[q].outcome.hit
        /\ Count(exec[q].log, "dispatch") = 1

----------------------------------------------------------------------------
(* Termination of an execution: the thread that runs it is scheduled, the
   cache calls return within the driver's time-outs, and the endpoint call
   returns, fails or hits its deadline *)

NextLive ==
    \/ \E p \in Procs : \E r \in Requests : StartExecution(p, r)
    \/ \E p \in Procs : Lookup(p)
    \/ \E p \in Procs : Dispatch(p)
    \/ \E p \in Procs : Finish(p)
    \/ \E p \in Procs : Return(p)
    \/ ClearCache

SpecLive ==
    /\ Init
    /\ [][NextLive]_vars
    /\ \A p \in Procs :
          WF_vars(Lookup(p)) /\ WF_vars(Dispatch(p)) /\ WF_vars(Finish(p))

\* the terminal states of the executor's state machine an ended execution
\* is in
TerminalStates(e) ==
    {st \in {"CacheHit", "Succeeded", "TimedOut", "NetworkFailed", "EndpointRejected"} :
        \/ st = "CacheHit" /\ e.outcome.kind = "return" /\ e.outcome.hit
        \/ st = "Succeeded" /\ e.outcome.kind = "return" /\ ~e.outcome.hit
        \/ st = "TimedOut" /\ e.outcome.kind = "raise"
              /\ IsInstance(e.outcome.exc, "QueryTimeoutException")
        \/ st = "NetworkFailed" /\ e.outcome.kind = "raise"
              /\ IsInstance(e.outcome.exc, "RequestException")
        \/ st = "EndpointRejected" /\ e.outcome.kind = "raise"
              /\ IsInstance(e.outcome.exc, "SPARQLWrapperException")}

\* the history shows a lookup that missed
Missed(log) == InLog(log, "lookup_miss") \/ InLog(log, "lookup_unreachable")

----------------------------------------------------------------------------
(* Query Enhancer: _enhance_query_with_labels as a function of its argument *)

\* what a query may begin with, what may follow its projection, and its
\* pattern block
QueryHeads == {<<K("SELECT"), SP>>, <<K("select"), NL>>, <<K("ASK"), SP>>}
QueryMids == {<<SP, K("WHERE")>>, <<K("WHERE")>>, <<SP>>}
QueryBodies ==
    { <<LB, V("s"), SP, Tok("wdt", "P31"), SP, V("x"), RB>>,
      <<LB, V("s"), SP, Tok("wdt", "P31"), SP, V("x"), RB, NL>>,
      <<LB, V("s"), SP, V("p"), SP, V("o"), RB, NL>>,
      <<LB, V("s"), SP, Tok("wdt", "P31"), SP, V("x"), RB, NL, K("LIMIT"), SP,
        Tok("lit", "10")>>,
      <<LB, V("s"), SP, Tok("wdt", "P31"), SP, V("x"), RB, NL, K("LIMIT"), SP,
        Tok("lit", "10"), NL>>,
      <<>> }

\* what a projection is made of
ProjectionAlphabet == {V("x"), V("item"), V("n"), Tok("sym", "*"), SP}

EnhancerInputs ==
    {h \o pr \o m \o b : h \in QueryHeads, pr \in TextsUpTo(ProjectionAlphabet, MaxLen),
                         m \in QueryMids, b \in QueryBodies}

InitEnhance ==
    /\ now = 0
    /\ coll = {}
    /\ indexes = [n \in {TTL_INDEX} |-> TTL]
    /\ cache_manager = Nil
    /\ svc = [p \in Procs |-> IdleSvc]
    /\ exec = [p \in Procs |-> IdleExec]
    /\ mcm = NoMcm
    /\ ret = NoCall
    /\ lastSet = [k \in StoreKeys |-> Nil]
    /\ sparql = <<>>
    /\ arg \in [f : {"enhance_query_with_labels"}, q : EnhancerInputs]
    /\ res = Nil

Enhance ==
    /\ arg.f = "enhance_query_with_labels"
    /\ res = Nil
    /\ res' = [enhanced |-> enhance_query_with_labels(arg.q)]
    /\ UNCHANGED <<now, coll, indexes, cache_manager, svc, exec, mcm, ret, lastSet, sparql, arg>>

SpecEnhance == InitEnhance /\ [][Enhance]_vars

\* the query has no SELECT ... WHERE projection clause
NoProjection(q) == SelectMatch(q) = <<>>

\* the projection names no variables
NoVariables(q) == ~NoProjection(q) /\ FindVariables(SelectMatch(q)[1]) = <<>>

\* none of the projected variables is classified as an entity variable
NoEntityVariables(q) ==
    /\ ~NoProjection(q)
    /\ \A i \in 1..Len(FindVariables(SelectMatch(q)[1])) :
          ~is_entity_variable(FindVariables(SelectMatch(q)[1])[i], q)

\* C20: a query without a SELECT ... WHERE projection clause, or whose
\* projection names no variables, or none of whose projected variables is
\* classified as an entity variable, is returned as it was given.
C20_NoOpReturnsInput ==
    res # Nil =>
        ((NoProjection(arg.q) \/ NoVariables(arg.q) \/ NoEntityVariables(arg.q))
            => res.enhanced = arg.q)

\* a query that ends in white space and projects variables none of which is
\* an entity variable has come back as given
C20_Witness ==
    /\ res # Nil
    /\ arg.q # <<>> /\ IsSpace(Last(arg.q))
    /\ ~NoProjection(arg.q) /\ ~NoVariables(arg.q) /\ NoEntityVariables(arg.q)
    /\ res.enhanced = arg.q

\* some projected variable is classified as an entity variable
HasEntityVariables(q) ==
    /\ ~NoProjection(q)
    /\ \E i \in 1..Len(FindVariables(SelectMatch(q)[1])) :
          is_entity_variable(FindVariables(SelectMatch(q)[1])[i], q)

\* the injection point cannot be located: trailing white space apart, the
\* query does not end with a closing brace
NoInjectionPoint(q) ==
    rstrip(q) = <<>> \/ rstrip(q)[Len(rstrip(q))] # Tok("sym", "}")

\* C21 as stated: with entity variables classified and no injection point,
\* the returned query equals the input query.
C21_NoInjectionReturnsInput ==
    res # Nil =>
        ((HasEntityVariables(arg.q) /\ NoInjectionPoint(arg.q)) => res.enhanced = arg.q)

\* C21: with entity variables classified and no injection point, the
\* enhancer raises nothing and adds nothing: it returns the input with its
\* trailing white space stripped, which is the input itself when the input
\* ends in none.
C21_NoInjectionReturnsStripped ==
    res # Nil =>
        ((HasEntityVariables(arg.q) /\ NoInjectionPoint(arg.q)) =>
            /\ res.enhanced = rstrip(arg.q)
            /\ ~IsSpace(Last(arg.q)) => res.enhanced = arg.q)

C21_Witness ==
    /\ res # Nil
    /\ HasEntityVariables(arg.q) /\ NoInjectionPoint(arg.q)
    /\ IsSpace(Last(arg.q))
    /\ res.enhanced = rstrip(arg.q) /\ res.enhanced # arg.q

\* how many times x is named in the projection the enhancer reads
RECURSIVE Occurrences(_, _)
Occurrences(s, e) ==
    IF s = <<>> THEN 0
    ELSE (IF Head(s) = e THEN 1 ELSE 0) + Occurrences(Tail(s), e)

Projected(q, x) ==
    IF NoProjection(q) THEN 0 ELSE Occurrences(FindVariables(SelectMatch(q)[1]), x)

\* x is the object of a direct-property triple: wdt:..., white space, ?x
ObjectOfWdt(q, x) ==
    \E i \in 1..Len(q) :
        /\ q[i].t = "wdt" /\ i < Len(q) /\ IsSpace(q[i + 1])
        /\ SkipSpace(q, i + 1) <= Len(q)
        /\ q[SkipSpace(q, i + 1)] = V(x)

\* the label blocks of x in a text
LabelBlocks(s, x) == Occurrences(s, Tok("label", x))

\* text out is text in with its final closing brace replaced by label blocks,
\* each on a line of its own, and a closing brace on the last line
BlocksBeforeFinalBrace(in, out) ==
    /\ Len(out) >= Len(in) + 2
    /\ SubSeq(out, 1, Len(in) - 1) = SubSeq(in, 1, Len(in) - 1)
    /\ SubSeq(out, Len(out) - 1, Len(out)) = <<NL, Tok("sym", "}")>>
    /\ \A i \in Len(in)..(Len(out) - 2) : out[i].t \in {"ws", "label"}
    /\ out[Len(out) - 2].t = "label"

\* C22 as stated: every query that projects x, the object of a wdt: triple,
\* comes back with exactly one label block of x, just before its final brace.
C22_ExactlyOneBlock ==
    res # Nil =>
        ((Projected(arg.q, "x") >= 1 /\ ObjectOfWdt(arg.q, "x")) =>
            /\ LabelBlocks(res.enhanced, "x") = 1
            /\ BlocksBeforeFinalBrace(rstrip(arg.q), res.enhanced))

----------------------------------------------------------------------------
(* Expiry: entries written through a constructed CacheManager, the clock and
   the server's TTL monitor *)

\* a caller's cache_manager.set_result(key, value) through the manager its
\* service holds
SetResult(p, key, value) ==
    /\ svc[p].pc = "ready" /\ svc[p].cache_manager # Nil
    /\ \E up \in BOOLEAN : coll' = set_result(coll, key, value, up, now)
    /\ UNCHANGED <<now, indexes, cache_manager, svc, exec, mcm, ret, lastSet, sparql, arg, res>>

\* the process starts over an empty collection that carries no TTL index,
\* the index of this deployment, or one left with another expireAfterSeconds
\* (one that comes due within the clock of the model)
InitEvict ==
    /\ now = 0
    /\ coll = {}
    /\ indexes \in {[n \in {} |-> 0]} \cup {[n \in {TTL_INDEX} |-> t] : t \in {TTL, 0}}
    /\ cache_manager = Nil
    /\ svc = [p \in Procs |-> IdleSvc]
    /\ exec = [p \in Procs |-> IdleExec]
    /\ mcm = NoMcm
    /\ ret = NoCall
    /\ lastSet = [k \in StoreKeys |-> Nil]
    /\ sparql = <<>>
    /\ arg = NoArg
    /\ res = Nil

NextEvict ==
    \/ \E p \in Procs : NewService(p)
    \/ \E p \in Procs : CheckSingleton(p)
    \/ \E p \in Procs : Ping(p)
    \/ \E p \in Procs : ListIndexes(p)
    \/ \E p \in Procs : DropIndex(p)
    \/ \E p \in Procs : CreateIndex(p)
    \/ \E p \in Procs : AssignSingleton(p)
    \/ \E p \in Procs : ReturnSingleton(p)
    \/ \E p \in Procs : \E k \in StoreKeys : \E v \in StoreValues : SetResult(p, k, v)
    \/ TTLMonitor
    \/ Tick

\* a step of caller p's request: the view builds its WikidataDataService
ServiceStep(p) ==
    \/ NewService(p) \/ CheckSingleton(p) \/ Ping(p) \/ ListIndexes(p)
    \/ DropIndex(p) \/ CreateIndex(p) \/ AssignSingleton(p) \/ ReturnSingleton(p)

\* the server's TTL monitor keeps running, and so do the callers' threads,
\* one request after the other
SpecEvict ==
    /\ InitEvict /\ [][NextEvict]_vars
    /\ WF_vars(TTLMonitor)
    /\ \A p \in Procs : WF_vars(ServiceStep(p))

\* C23: an entry whose age has reached the TTL is eventually gone from the
\* store (evicted by the TTL monitor, unless a set replaced it first), no
\* delete or invalidation being called.
C23_ExpiredEventuallyRemoved ==
    \A k \in StoreKeys : \A v \in StoreValues : \A t \in Times :
        (Doc(k, v, t) \in coll /\ now - t >= TTL) ~> (Doc(k, v, t) \notin coll)

\* C23 over a collection that carries the TTL index of this deployment
\* from the start
C23_RemovedUnderIndex ==
    \A k \in StoreKeys : \A v \in StoreValues : \A t \in Times :
        (Doc(k, v, t) \in coll /\ now - t >= TTL) ~>
            (Doc(k, v, t) \notin coll \/ TTL_INDEX \notin DOMAIN indexes)

----------------------------------------------------------------------------
(* set and get of MongoCacheManager: replacement and reads *)

\* the entries of collection c under keys other than key
Others(c, key) == {d \in c : d._id # key}

\* C24: a completed set(k, v) leaves under k exactly the entry (k, v, now),
\* whatever was stored under k before (nothing of a prior value is left,
\* get(k) gives v), and leaves every other entry as it was; doing set(k, v)
\* again changes no get result of any key, only created_at of k.
C24_SetReplacesWholeEntry ==
    [][\A k \in StoreKeys : \A v \in StoreValues :
          (McmSet(k, v) /\ ret' = SetReturn(k, v, now)) =>
              /\ {d \in coll' : d._id = k} = {Doc(k, v, now)}
              /\ Others(coll', k) = Others(coll, k)
              /\ get(coll', k) = v
              /\ \A t \in Times :
                    /\ \A k2 \in StoreKeys :
                          get(set(coll', k, v, t), k2) = get(coll', k2)
                    /\ set(coll', k, v, t) = Others(coll', k) \cup {Doc(k, v, t)}]_vars

C24_Witness ==
    /\ ret = SetReturn("k1", [a |-> 2], MaxTime)
    /\ Doc("k1", [a |-> 2], MaxTime) \in coll
    /\ \E d \in coll : d._id = "k2" /\ d.created_at < MaxTime
    /\ Cardinality(coll) = 2

\* caller p's step is the cache hit of its execution
HitNow(p) ==
    Steps(p) /\ InLog(exec'[p].log, "lookup_hit") /\ ~InLog(exec[p].log, "lookup_hit")

----------------------------------------------------------------------------
(* ExplorerService of explorer/explorer_service.py *)

\* the identifiers and the property lists a caller passes (None is the
\* empty sequence; a text is the sequence of its characters)
Identifiers ==
    {<<>>, <<"Q", "3", "0">>, <<"q", "3", "0">>, <<" ", "Q", "3", "0">>,
     <<"Q">>, <<"3", "0">>, <<"Q", "x">>}
PropertyLists == {<<>>, <<"P", "3", "1">>, <<"P", "3", "1", ",", "P", "5">>}
QueryTypes == {"qid", "sparql", "graphql"}

\* str.upper and str.strip over the characters of the model
UpperChar(c) == CASE c = "q" -> "Q" [] c = "p" -> "P" [] c = "x" -> "X" [] OTHER -> c
Upper(s) == [i \in 1..Len(s) |-> UpperChar(s[i])]
StripChars(s) ==
    LET idx == {i \in 1..Len(s) : s[i] # " "}
    IN  IF idx = {} THEN <<>>
        ELSE SubSeq(s, CHOOSE i \in idx : \A j \in idx : i <= j,
                       CHOOSE i \in idx : \A j \in idx : i >= j)

\* str.isdigit: not empty, every character a digit
IsDigit(s) == s # <<>> /\ \A i \in 1..Len(s) : s[i] \in {"0", "1", "3", "5"}

\* ExplorerService.generate_sparql_query: <<"ValueError">> when it raises,
\* else the query, kept as the QID and the property list it is made of
generate_sparql_query(qid, properties_str) ==
    IF qid = <<>> \/ properties_str = <<>> THEN <<"ValueError">>
    ELSE LET q == Upper(StripChars(qid))
         IN  IF ~(q # <<>> /\ q[1] = "Q") \/ ~IsDigit(Tail(q)) THEN <<"ValueError">>
             ELSE <<"query", q, Upper(properties_str)>>

\* what 'from .data_service import DataService' binds: data_service.py
\* defines no DataService, so importing the module raises ImportError; the
\* one class it does define is WikidataDataService
DataServices == {"ImportError", "WikidataDataService"}

\* the attributes of a WikidataDataService (set in __init__, and its methods)
Attributes(cls) ==
    IF cls = "WikidataDataService"
    THEN {"endpoint_url", "cache_manager", "sparql", "_is_entity_variable", "_enhance_query_with_labels",
          "_execute_sparql_query", "search_entities", "get_entity_properties",
          "execute_custom_query", "get_cache_stats", "clear_cache"}
    ELSE {}

ExplorerRaised(exc) ==
    [kind |-> "raise", exc |-> exc, head_vars |-> <<>>, results |-> <<>>,
     error_message |-> "", called |-> FALSE]
ExplorerReturned(head_vars, results, error_message, called) ==
    [kind |-> "return", exc |-> "", head_vars |-> head_vars, results |-> results,
     error_message |-> error_message, called |-> called]

\* lines 63-81, once line 57 has gone through: the dispatch on query_type,
\* the call of the data service and the except clauses; 'called' tells
\* whether execute_sparql_query was called
execute_query_try(data_service, query_type, identifier, query_input) ==
    LET sparql_query ==
            IF query_type = "qid" THEN generate_sparql_query(identifier, query_input)
            ELSE IF query_type = "sparql" THEN <<"query", query_input>>
            ELSE <<"ValueError">>
    IN  IF sparql_query[1] = "ValueError"
        THEN ExplorerReturned(<<>>, <<>>, "Input Error", FALSE)
        ELSE IF "execute_sparql_query" \notin Attributes(data_service)
             THEN ExplorerReturned(<<>>, <<>>, "An unexpected error occurred", FALSE)
             ELSE ExplorerReturned(<<"head">>, <<"row">>, "", TRUE)

\* ExplorerService.execute_query: line 57 reads is_db_connected before the
\* try block
execute_query(data_service, query_type, identifier, query_input) ==
    IF data_service = "ImportError" THEN ExplorerRaised("ImportError")
    ELSE IF "is_db_connected" \notin Attributes(data_service)
         THEN ExplorerRaised("AttributeError")
         ELSE execute_query_try(data_service, query_type, identifier, query_input)

InitExplorer ==
    /\ now = 0
    /\ coll = {}
    /\ indexes = [n \in {TTL_INDEX} |-> TTL]
    /\ cache_manager = Nil
    /\ svc = [p \in Procs |-> IdleSvc]
    /\ exec = [p \in Procs |-> IdleExec]
    /\ mcm = NoMcm
    /\ ret = NoCall
    /\ lastSet = [k \in StoreKeys |-> Nil]
    /\ sparql = <<>>
    /\ arg \in [f : {"execute_query"}, data_service : DataServices,
                query_type : QueryTypes, identifier : Identifiers,
                query_input : PropertyLists]
    /\ res = Nil

\* a view imports explorer_service and calls ExplorerService().execute_query
ExecuteQuery ==
    /\ arg.f = "execute_query"
    /\ res = Nil
    /\ res' = execute_query(arg.data_service, arg.query_type, arg.identifier,
                            arg.query_input)
    /\ UNCHANGED <<now, coll, indexes, cache_manager, svc, exec, mcm, ret, lastSet, sparql, arg>>

SpecExplorer == InitExplorer /\ [][ExecuteQuery]_vars

\* the input is one execute_query is to reject
Disallowed(a) ==
    \/ a.query_type \notin {"qid", "sparql"}
    \/ /\ a.query_type = "qid"
       /\ \/ a.identifier = <<>> \/ a.query_input = <<>>
          \/ ~(a.identifier # <<>> /\ a.identifier[1] = "Q" /\ IsDigit(Tail(a.identifier)))

\* C26: execute_query never raises, and for disallowed input it returns an
\* error message with empty head_vars and results, the data service not
\* having been called.
C26_NeverRaises ==
    res # Nil =>
        /\ res.kind = "return"
        /\ Disallowed(arg) =>
              /\ res.error_message # ""
              /\ res.head_vars = <<>> /\ res.results = <<>>
              /\ ~res.called

----------------------------------------------------------------------------
(* Hits across texts of one normalized form *)

\* the texts have the same normalized form
SameNormalized(q1, q2) == NormalizeQuery(q1) = NormalizeQuery(q2)

\* the requests whose execution may have cached what an execution of text q
\* through entry point entry looks up
CachedBy(entry, q) ==
    {r \in Requests : r.use_cache /\ r.entry = entry /\ SameNormalized(r.q, q)}

\* caller p's step is the cache lookup of its execution
LooksUp(p) == Steps(p) /\ exec[p].pc = "lookup"

\* the step ends p's execution as a hit that returns v, nothing dispatched
HitReturning(p, v) ==
    /\ exec'[p].pc = "done"
    /\ exec'[p].outcome = Returned(v, TRUE)
    /\ ~InLog(exec'[p].log, "dispatch")

----------------------------------------------------------------------------
(* The TTL index after construction, both cache managers *)

\* collection idx carries the TTL index name with expireAfterSeconds ttl
CarriesIndex(idx, name, ttl) == name \in DOMAIN idx /\ idx[name] = ttl

\* C28: when the constructor of a CacheManager or of a MongoCacheManager has
\* returned without raising, the collection carries that manager's TTL index on
\* created_at with expireAfterSeconds equal to the instance's ttl_seconds.
C28_IndexMatchesTTLAfterConstruction ==
    /\ \A p \in Procs :
          svc[p].pc = "assign" => CarriesIndex(indexes, TTL_INDEX, TTL)
    /\ mcm.pc = "ready" => CarriesIndex(indexes, INDEX_NAME, mcm.ttl_seconds)

----------------------------------------------------------------------------
(* Executions with use_cache=False *)

\* caller p's step belongs to an execution that was started with
\* use_cache=False
StepsUncached(p) ==
    /\ Steps(p)
    /\ \/ exec[p].pc # "idle" /\ ~exec[p].use_cache
       \/ exec'[p].pc # "idle" /\ ~exec'[p].use_cache

\* C29: an execution with use_cache=False derives no key, looks nothing up
\* and writes nothing: its history holds the dispatch only, it has dispatched
\* exactly once when it ends, and none of its steps changes the collection.
C29_UncachedBypassesCache ==
    [][\A p \in Procs : StepsUncached(p) =>
          /\ coll' = coll
          /\ exec'[p].pc # "idle" =>
                /\ exec'[p].cache_key = Nil
                /\ \A i \in 1..Len(exec'[p].log) : exec'[p].log[i] = "dispatch"
                /\ exec'[p].pc = "done" => Count(exec'[p].log, "dispatch") = 1]_vars

C29_Witness ==
    \E p \in Procs :
        /\ exec[p].pc = "done" /\ ~exec[p].use_cache
        /\ exec[p].entry = "_execute_sparql_query"
        /\ exec[p].outcome = Returned(Result(QS), FALSE)
        /\ exec[p].log = <<"dispatch">>
        /\ coll = {}

====
